---- MODULE Spec2Model ----
(***************************************************************************)
(* A model of submit-service: the sample endpoint GET /fields (src/app.js) *)
(* and the download endpoint GET /download/<key> (src/download.js).        *)
(*                                                                         *)
(* One request is followed from its arrival to its last callback.  The     *)
(* synchronous part of a handler is one action; every asynchronous event   *)
(* the code registers a callback for (a response, a decoded record, a      *)
(* stream's 'close' or 'finish', a zip entry) is an action of its own, so  *)
(* that the orders the event loop allows are the interleavings of the      *)
(* model.                                                                  *)
(*                                                                         *)
(* Specifications:                                                         *)
(*   SpecClassify  preconditionsCheck, determineType and the router chain  *)
(*                 of /fields over every locator of bounded length;        *)
(*   SpecFields    the whole of /fields over one locator of each class;    *)
(*   SpecDownload  the whole of /download.                                 *)
(*   SpecFieldsLive, SpecDownloadLive  the same two with the fairness of   *)
(*                 the event loop, for the liveness of a request.          *)
(***************************************************************************)
EXTENDS Integers, Sequences, FiniteSets, TLC

VARIABLES
    pc,           \* the handler the request is in
    source,       \* req.query.source
    protocol,     \* req.query.protocol
    type,         \* req.query.type
    compression,  \* req.query.compression
    fields,       \* req.query.fields
    results,      \* req.query.results
    res,          \* the response: headersSent, statusCode, body
    crashed,      \* an exception escaped a callback (no handler catches it)
    upstream,     \* what the remote source answers: status, n, entries
    conn,         \* the upstream request: none, open, aborted, ended
    streams,      \* per decoded stream: records read, records taken, state
    events,       \* 'close' / 'finish' events emitted and not yet delivered
    zipPos,       \* the archive entry the zip parser is at (0: none yet)
    zipFinished,  \* the zip parser's 'finish' was delivered
    nextCalls,    \* how often a sampler called next()
    dl            \* the state of a /download request (see DownloadInit)

vars == <<pc, source, protocol, type, compression, fields, results, res,
          crashed, upstream, conn, streams, events, zipPos, zipFinished,
          nextCalls, dl>>

qvars == <<source, protocol, type, compression, fields, results>>
svars == <<upstream, conn, streams, events, zipPos, zipFinished, nextCalls>>

(***************************************************************************)
(* Bounds of the model.                                                    *)
(***************************************************************************)
\* longest locator, in tokens
MaxLocatorLen == 3
\* a source holds up to SampleCap + MaxOver records
MaxOver == 3
\* most entries of a zip archive
MaxEntries == 2
\* records a stalled decoder chain buffers ahead of its consumer
HighWaterMark == 1

(***************************************************************************)
(* Program constants.                                                      *)
(***************************************************************************)
\* app.js:169 and :213, results.length < 10; app.js:110 features[9]
SampleCap == 10

\* JavaScript's undefined, for a string, for req.query.fields (a set of
\* names) and for req.query.results (a sequence)
Undefined == "undefined"
UndefinedFields == {Undefined}
UndefinedResults == <<Undefined>>

Min(a, b) == IF a < b THEN a ELSE b

(***************************************************************************)
(* Locators.  A locator is a sequence of tokens; the tokens are the        *)
(* substrings the classifier distinguishes.                                *)
(***************************************************************************)
Digits == {"0", "13"}
Servers == {"MapServer/", "FeatureServer/"}
Tokens == {"x", "/", ".csv", ".geojson", ".zip", ".CSV", "mapserver/"}
              \cup Digits \cup Servers

RECURSIVE SeqsUpTo(_, _)
SeqsUpTo(S, n) ==
    IF n = 0 THEN {<<>>}
    ELSE LET shorter == SeqsUpTo(S, n - 1)
         IN  shorter \cup {Append(s, t) : s \in {u \in shorter : Len(u) = n - 1}, t \in S}

Locators == SeqsUpTo(Tokens, MaxLocatorLen)

\* _.endsWith(source, suffix)
endsWith(s, suffix) == Len(s) > 0 /\ s[Len(s)] = suffix

\* arcgisRegexp = /(Map|Feature)Server\/\d+\/?$/ : a server token, one or
\* more digits, an optional slash, the end of the string
arcgisRegexpTest(s) ==
    \E i \in 1..Len(s) :
        /\ s[i] \in Servers
        /\ \E j \in (i + 1)..Len(s) :
              /\ \A k \in (i + 1)..j : s[k] \in Digits
              /\ \/ j = Len(s)
                 \/ j + 1 = Len(s) /\ s[j + 1] = "/"

\* the protocol determineType assigns, app.js:32-46
determineProtocol(s) ==
    IF arcgisRegexpTest(s) THEN "ESRI"
    ELSE IF endsWith(s, ".geojson") THEN "http"
    ELSE IF endsWith(s, ".csv") THEN "http"
    ELSE IF endsWith(s, ".zip") THEN "http"
    ELSE "unknown"

\* req.query.type after determineType: assigned in the first three
\* branches, left as the request had it in the others
determineTypeOf(s, t) ==
    IF arcgisRegexpTest(s) THEN "geojson"
    ELSE IF endsWith(s, ".geojson") THEN "geojson"
    ELSE IF endsWith(s, ".csv") THEN "csv"
    ELSE t

\* req.query.compression after determineType: assigned in the .zip branch
\* only, left as the request had it in the others
determineCompression(s, c) ==
    IF arcgisRegexpTest(s) THEN c
    ELSE IF endsWith(s, ".geojson") THEN c
    ELSE IF endsWith(s, ".csv") THEN c
    ELSE IF endsWith(s, ".zip") THEN "zip"
    ELSE c

\* typecheck(protocol, type, compression): strict equality on all three
typecheck(p, t, c) == protocol = p /\ type = t /\ compression = c

(***************************************************************************)
(* Records.  Record i of stream k is a mapping from field names to values; *)
(* the key set varies from record to record.                               *)
(***************************************************************************)
RecordOf(k, i) ==
    IF i % 3 = 1 THEN [entry |-> k, id |-> i]
    ELSE IF i % 3 = 2 THEN [entry |-> k, id |-> i, note |-> i]
    ELSE [entry |-> k, id |-> i, extra |-> i]

\* _.keys(record)
keys(r) == DOMAIN r

\* the first m records of stream k
RECURSIVE Prefix(_, _)
Prefix(k, m) == IF m = 0 THEN <<>> ELSE Append(Prefix(k, m - 1), RecordOf(k, m))

(***************************************************************************)
(* The response.                                                           *)
(***************************************************************************)
\* sentStatus is the status line that went out with the headers (0: none
\* yet); statusCode is the field res.status() assigns
FreshRes ==
    [headersSent |-> FALSE, statusCode |-> 200, sentStatus |-> 0,
     body |-> <<>>, ended |-> FALSE]

\* res.status(code)...send(body) on a response whose headers are not sent
Sent(code, body) ==
    [headersSent |-> TRUE, statusCode |-> code, sentStatus |-> code,
     body |-> <<body>>, ended |-> TRUE]

\* res.status(code).type(..).send(body) called from a callback: on a
\* response already sent, status() assigns statusCode and the header write
\* throws out of the callback
SendFromCallback(code, body) ==
    IF res.headersSent
    THEN /\ res' = [res EXCEPT !.statusCode = code]
         /\ crashed' = TRUE
    ELSE /\ res' = Sent(code, body)
         /\ crashed' = crashed

Alive == ~crashed

(***************************************************************************)
(* GET /fields: the inputs.                                                *)
(***************************************************************************)
\* a request without source, or with an empty one: !req.query.source
NoSource == <<>>

\* one locator of each class, for the runs that go on to sample
FieldLocators ==
    { <<"x", "MapServer/", "0">>, <<"x", ".geojson">>, <<"x", ".csv">>,
      <<"x", ".zip">>, <<"x">> }

EntryKinds == {"csv", "geojson", "other"}
Archives == SeqsUpTo(EntryKinds, MaxEntries)

\* record counts of the entries of an archive
ZipCounts == {0, 2, SampleCap + MaxOver}

NoUpstream == [status |-> "ok", n |-> 0, entries |-> <<>>]

\* record counts of a CSV body that csv-parse rejects after so many records
MalformedCounts == {0, 2}

\* what the remote end may answer for a locator: "malformed" is a 200
\* answer whose body is a CSV that csv-parse rejects after n records
Upstreams(s) ==
    IF determineProtocol(s) = "unknown" THEN {NoUpstream}
    ELSE IF endsWith(s, ".csv")
    THEN {[status |-> "ok", n |-> m, entries |-> <<>>] : m \in 0..(SampleCap + MaxOver)}
             \cup {[status |-> st, n |-> 0, entries |-> <<>>] : st \in {"refused", "non200"}}
             \cup {[status |-> "malformed", n |-> m, entries |-> <<>>] : m \in MalformedCounts}
    ELSE IF endsWith(s, ".zip")
    THEN {[status |-> "ok", n |-> m, entries |-> a] : m \in ZipCounts, a \in Archives}
             \cup {[status |-> "refused", n |-> 0, entries |-> <<>>]}
    ELSE {[status |-> "ok", n |-> m, entries |-> <<>>] : m \in 0..(SampleCap + MaxOver)}
             \cup {[status |-> st, n |-> 0, entries |-> <<>>] : st \in {"refused", "non200"}}

StreamIds == 1..MaxEntries
IdleStream == [read |-> 0, taken |-> 0, state |-> "idle"]

NoDownload == [stage |-> "none"]

\* the request as express hands it to the first handler: req.query holds
\* the parameters of the query string
RequestInit(sources) ==
    /\ pc = "preconditionsCheck"
    /\ source \in sources \cup {NoSource}
    /\ protocol = Undefined
    /\ type \in {Undefined, "csv"}
    /\ compression \in {Undefined, "zip"}
    /\ fields = UndefinedFields
    /\ results = UndefinedResults
    /\ res = FreshRes
    /\ crashed = FALSE
    /\ conn = "none"
    /\ streams = [k \in StreamIds |-> IdleStream]
    /\ events = {}
    /\ zipPos = 0
    /\ zipFinished = FALSE
    /\ nextCalls = 0
    /\ dl = NoDownload

FieldsInit ==
    /\ RequestInit(FieldLocators)
    /\ upstream \in Upstreams(source)

ClassifyInit ==
    /\ RequestInit(Locators)
    /\ upstream = NoUpstream

(***************************************************************************)
(* GET /fields: the synchronous chain (app.js:308-316).                    *)
(***************************************************************************)
\* app.js:19-26
preconditionsCheck ==
    /\ Alive /\ pc = "preconditionsCheck"
    /\ IF source = NoSource
       THEN /\ res' = Sent(400, "'source' parameter is required")
            /\ pc' = "done"
       ELSE /\ res' = res
            /\ pc' = "determineType"
    /\ UNCHANGED <<qvars, svars, crashed, dl>>

\* app.js:29-55
determineType ==
    /\ Alive /\ pc = "determineType"
    /\ protocol' = determineProtocol(source)
    /\ type' = determineTypeOf(source, type)
    /\ compression' = determineCompression(source, compression)
    /\ IF protocol' = "unknown"
       THEN /\ res' = Sent(400, "Unsupported type")
            /\ pc' = "done"
       ELSE /\ res' = res
            /\ pc' = "arcgisRouter"
    /\ UNCHANGED <<source, fields, results, svars, crashed, dl>>

\* app.js:295: typecheck('ESRI', 'geojson'), sampleArcgis (app.js:69-79:
\* the query is issued)
arcgisRouter ==
    /\ Alive /\ pc = "arcgisRouter"
    /\ IF typecheck("ESRI", "geojson", Undefined)
       THEN pc' = "sampleArcgis" /\ conn' = "open"
       ELSE pc' = "geojsonRouter" /\ conn' = conn
    /\ UNCHANGED <<qvars, res, crashed, upstream, streams, events, zipPos,
                   zipFinished, nextCalls, dl>>

\* app.js:299: typecheck('http', 'geojson'), sampleGeojson (app.js:100-105:
\* results is emptied and oboe issues the request)
geojsonRouter ==
    /\ Alive /\ pc = "geojsonRouter"
    /\ IF typecheck("http", "geojson", Undefined)
       THEN pc' = "sampleGeojson" /\ conn' = "open" /\ results' = <<>>
       ELSE pc' = "csvRouter" /\ conn' = conn /\ results' = results
    /\ UNCHANGED <<source, protocol, type, compression, fields, res, crashed,
                   upstream, streams, events, zipPos, zipFinished, nextCalls, dl>>

\* app.js:303: typecheck('http', 'csv'), sampleCsv (app.js:134-138: the
\* request is issued)
csvRouter ==
    /\ Alive /\ pc = "csvRouter"
    /\ IF typecheck("http", "csv", Undefined)
       THEN pc' = "sampleCsv" /\ conn' = "open"
       ELSE pc' = "zipRouter" /\ conn' = conn
    /\ UNCHANGED <<qvars, res, crashed, upstream, streams, events, zipPos,
                   zipFinished, nextCalls, dl>>

\* app.js:306: typecheck('http', undefined, 'zip'), sampleZip
\* (app.js:196-200: the request is issued and piped to the zip parser)
zipRouter ==
    /\ Alive /\ pc = "zipRouter"
    /\ IF typecheck("http", Undefined, "zip")
       THEN pc' = "sampleZip" /\ conn' = "open"
       ELSE pc' = "output" /\ conn' = conn
    /\ UNCHANGED <<qvars, res, crashed, upstream, streams, events, zipPos,
                   zipFinished, nextCalls, dl>>

\* the body output sends, app.js:272-284
OutputBody(t, f, r) ==
    [type |-> protocol, compression |-> compression, data |-> source,
     fields |-> f, results |-> r, conformType |-> t]

\* output, app.js:271-287, with type t, fields f and results r in req.query.
\* It runs inside an express layer: on a response already sent, status()
\* assigns statusCode, send() throws and express catches the exception.
outputWith(t, f, r) ==
    IF res.headersSent
    THEN res' = [res EXCEPT !.statusCode = 200]
    ELSE res' = Sent(200, OutputBody(t, f, r))

\* output reached with no sampler run (no router's typecheck matched)
output ==
    /\ Alive /\ pc = "output"
    /\ outputWith(type, fields, results)
    /\ pc' = "done"
    /\ UNCHANGED <<qvars, svars, crashed, dl>>

\* a sampler's next(): the routers after it do not match a request that
\* matched this one, so output runs, in the same call
next(t, f, r) ==
    /\ nextCalls' = nextCalls + 1
    /\ outputWith(t, f, r)

(***************************************************************************)
(* sampleArcgis, app.js:69-96.                                             *)
(***************************************************************************)
\* the field names of an ArcGIS layer (response.body.fields)
ArcgisFields == {"entry", "id", "note", "extra"}

\* the callback of request.get, app.js:80-94.  The server was asked for
\* resultRecordCount = 10 records from offset 0 and answers with as many.
\* On a connection failure response is undefined and reading
\* response.statusCode throws out of the callback.
sampleArcgisCallback ==
    /\ Alive /\ pc = "sampleArcgis" /\ conn = "open"
    /\ conn' = "ended"
    /\ pc' = "done"
    /\ CASE upstream.status = "refused" ->
              /\ crashed' = TRUE
              /\ UNCHANGED <<res, fields, results, nextCalls>>
         [] upstream.status = "non200" ->
              /\ res' = Sent(400, "Error connecting to Arcgis server")
              /\ UNCHANGED <<crashed, fields, results, nextCalls>>
         [] OTHER ->
              /\ fields' = ArcgisFields
              /\ results' = Prefix(1, Min(SampleCap, upstream.n))
              /\ next(type, fields', results')
              /\ crashed' = crashed
    /\ UNCHANGED <<source, protocol, type, compression, upstream, streams,
                   events, zipPos, zipFinished, dl>>

(***************************************************************************)
(* Decoders and samplers shared by the direct and the zip samplers.        *)
(***************************************************************************)
\* the records of stream k: of the source itself, or of entry k
Total(k) == upstream.n

\* csv-parse piped into the through2 sampler: the parser decodes the next
\* record of stream k.  A record the sampler has not taken yet stays in the
\* chain's buffers, which hold HighWaterMark records; a full buffer pauses
\* the source.
ParseRecord(k) ==
    /\ streams[k].state \in {"flowing", "destroyed"}
    /\ streams[k].read < Total(k)
    /\ streams[k].read - streams[k].taken < HighWaterMark
    /\ streams' = [streams EXCEPT ![k].read = @ + 1]

\* the sampler's test with its bound off by one
HasRoomOffByOne(r) == Len(r) <= SampleCap

\* whether the sampler accepts another record, app.js:169 and :213
HasRoom(r) == Len(r) < SampleCap

\* the sampler keeping the field names of the first record it appends
Through2SamplerFirstKeys(k) ==
    /\ streams[k].state = "flowing"
    /\ streams[k].taken < streams[k].read
    /\ LET record == RecordOf(k, streams[k].taken + 1)
       IN  IF HasRoom(results)
           THEN /\ fields' = IF results = <<>> THEN keys(record) ELSE fields
                /\ results' = Append(results, record)
                /\ streams' = [streams EXCEPT ![k].taken = @ + 1]
                /\ events' = events
           ELSE /\ fields' = fields
                /\ results' = results
                /\ streams' = [streams EXCEPT ![k].taken = @ + 1,
                                              ![k].state = "destroyed"]
                /\ events' = events \cup {<<k, "close">>}

\* the through2 sampler, app.js:168-178 and :211-222, on the next record of
\* stream k: the record is appended, or the transform is destroyed, which
\* emits 'close'; its callback is not called then, so the transform takes
\* no further record
Through2Sampler(k) ==
    /\ streams[k].state = "flowing"
    /\ streams[k].taken < streams[k].read
    /\ LET record == RecordOf(k, streams[k].taken + 1)
       IN  IF HasRoom(results)
           THEN /\ fields' = keys(record)
                /\ results' = Append(results, record)
                /\ streams' = [streams EXCEPT ![k].taken = @ + 1]
                /\ events' = events
           ELSE /\ fields' = fields
                /\ results' = results
                /\ streams' = [streams EXCEPT ![k].taken = @ + 1,
                                              ![k].state = "destroyed"]
                /\ events' = events \cup {<<k, "close">>}

\* the source of stream k ended and the sampler took its last record: the
\* transform emits 'finish'
Through2End(k) ==
    /\ streams[k].state = "flowing"
    /\ streams[k].read = Total(k)
    /\ streams[k].taken = Total(k)
    /\ streams' = [streams EXCEPT ![k].state = "finished"]
    /\ events' = events \cup {<<k, "finish">>}

\* the index of the feature at which oboe's 'features[9]' fires
AbortAt == SampleCap

\* oboe on stream k parsed the next feature: the 'features[*]' callback
\* appends its properties, app.js:106-109 and :238-241
OboeFeature(k) ==
    /\ streams[k].state = "flowing"
    /\ streams[k].read < Total(k)
    /\ LET feature == RecordOf(k, streams[k].read + 1)
       IN  /\ fields' = keys(feature)
           /\ results' = Append(results, feature)

(***************************************************************************)
(* sampleGeojson, app.js:100-130.                                          *)
(***************************************************************************)
\* the first bytes of the response arrive: oboe starts parsing
sampleGeojsonStart ==
    /\ Alive /\ pc = "sampleGeojson" /\ conn = "open"
    /\ upstream.status = "ok"
    /\ streams[1].state = "idle"
    /\ streams' = [streams EXCEPT ![1].state = "flowing"]
    /\ UNCHANGED <<pc, qvars, res, crashed, upstream, conn, events, zipPos,
                   zipFinished, nextCalls, dl>>

\* .fail, app.js:117-123
sampleGeojsonFail ==
    /\ Alive /\ pc = "sampleGeojson" /\ conn = "open"
    /\ upstream.status # "ok"
    /\ SendFromCallback(400, "Error retrieving file")
    /\ conn' = "ended"
    /\ pc' = "done"
    /\ UNCHANGED <<qvars, upstream, streams, events, zipPos, zipFinished,
                   nextCalls, dl>>

\* a feature was parsed: 'features[*]', and for the tenth 'features[9]',
\* app.js:110-116: this.abort() aborts the request, then next()
sampleGeojsonNode ==
    /\ Alive /\ pc = "sampleGeojson" /\ conn = "open"
    /\ OboeFeature(1)
    /\ IF streams[1].read + 1 = AbortAt
       THEN /\ streams' = [streams EXCEPT ![1].read = @ + 1, ![1].state = "aborted"]
            /\ conn' = "aborted"
            /\ next(type, fields', results')
       ELSE /\ streams' = [streams EXCEPT ![1].read = @ + 1]
            /\ conn' = conn
            /\ UNCHANGED <<res, nextCalls>>
    /\ UNCHANGED <<pc, source, protocol, type, compression, crashed, upstream,
                   events, zipPos, zipFinished, dl>>

\* .done, app.js:124-128: the document ended and oboe was not aborted
sampleGeojsonDone ==
    /\ Alive /\ pc = "sampleGeojson" /\ conn = "open"
    /\ streams[1].state = "flowing"
    /\ streams[1].read = Total(1)
    /\ streams' = [streams EXCEPT ![1].state = "done"]
    /\ conn' = "ended"
    /\ next(type, fields, results)
    /\ UNCHANGED <<pc, qvars, crashed, upstream, events, zipPos, zipFinished, dl>>

(***************************************************************************)
(* sampleCsv, app.js:134-192.                                              *)
(***************************************************************************)
\* r.on('error'), app.js:141-146
sampleCsvError ==
    /\ Alive /\ pc = "sampleCsv" /\ conn = "open"
    /\ upstream.status = "refused"
    /\ SendFromCallback(400, "Error retrieving file")
    /\ conn' = "ended"
    /\ pc' = "done"
    /\ UNCHANGED <<qvars, upstream, streams, events, zipPos, zipFinished,
                   nextCalls, dl>>

\* r.on('response'), app.js:149-190
sampleCsvResponse ==
    /\ Alive /\ pc = "sampleCsv" /\ conn = "open"
    /\ upstream.status # "refused"
    /\ streams[1].state = "idle"
    /\ IF upstream.status = "non200"
       THEN /\ SendFromCallback(400, "Error retrieving file")
            /\ conn' = "ended"
            /\ pc' = "done"
            /\ UNCHANGED <<results, streams>>
       ELSE /\ results' = <<>>
            /\ streams' = [streams EXCEPT ![1].state = "flowing"]
            /\ UNCHANGED <<res, crashed, conn, pc>>
    /\ UNCHANGED <<source, protocol, type, compression, fields, upstream,
                   events, zipPos, zipFinished, nextCalls, dl>>

\* csv-parse decodes the next record of the response
sampleCsvParse ==
    /\ Alive /\ pc = "sampleCsv" /\ conn = "open"
    /\ ParseRecord(1)
    /\ UNCHANGED <<pc, qvars, res, crashed, upstream, conn, events, zipPos,
                   zipFinished, nextCalls, dl>>

\* the through2 transform, app.js:168-178
sampleCsvRecord ==
    /\ Alive /\ pc = "sampleCsv"
    /\ Through2Sampler(1)
    /\ UNCHANGED <<pc, source, protocol, type, compression, res, crashed,
                   upstream, conn, zipPos, zipFinished, nextCalls, dl>>

\* csv-parse rejects the body after its last good record and emits
\* 'error'.  The parser made at app.js:162-165 is given no 'error' listener
\* (the one of app.js:141 is on the request r), so the event is thrown and
\* no handler catches it.
sampleCsvDecodeError ==
    /\ Alive /\ pc = "sampleCsv" /\ conn = "open"
    /\ upstream.status = "malformed"
    /\ streams[1].state = "flowing"
    /\ streams[1].read = Total(1)
    /\ crashed' = TRUE
    /\ conn' = "ended"
    /\ UNCHANGED <<pc, qvars, res, upstream, streams, events, zipPos,
                   zipFinished, nextCalls, dl>>

\* the response ended and every record was taken
sampleCsvEnd ==
    /\ Alive /\ pc = "sampleCsv" /\ conn = "open"
    /\ upstream.status = "ok"
    /\ Through2End(1)
    /\ conn' = "ended"
    /\ UNCHANGED <<pc, qvars, res, crashed, upstream, zipPos, zipFinished,
                   nextCalls, dl>>

\* .on('close'), app.js:179-182
sampleCsvClose ==
    /\ Alive /\ pc = "sampleCsv"
    /\ <<1, "close">> \in events
    /\ events' = events \ {<<1, "close">>}
    /\ next(type, fields, results)
    /\ UNCHANGED <<pc, qvars, crashed, upstream, conn, streams, zipPos,
                   zipFinished, dl>>

\* .on('finish'), app.js:183-186
sampleCsvFinish ==
    /\ Alive /\ pc = "sampleCsv"
    /\ <<1, "finish">> \in events
    /\ events' = events \ {<<1, "finish">>}
    /\ next(type, fields, results)
    /\ UNCHANGED <<pc, qvars, crashed, upstream, conn, streams, zipPos,
                   zipFinished, dl>>

(***************************************************************************)
(* sampleZip, app.js:196-268.                                              *)
(***************************************************************************)
Entries == upstream.entries

\* the zip parser has read entry k to its end (entry 0: the archive's start)
EntryRead(k) == IF k = 0 THEN TRUE ELSE streams[k].read = Total(k)

\* request.get(..) fails to connect: sampleZip registers no 'error'
\* listener, so the event is thrown
sampleZipError ==
    /\ Alive /\ pc = "sampleZip" /\ conn = "open"
    /\ upstream.status = "refused"
    /\ crashed' = TRUE
    /\ conn' = "ended"
    /\ UNCHANGED <<pc, qvars, res, upstream, streams, events, zipPos,
                   zipFinished, nextCalls, dl>>

\* .on('entry'), app.js:201-261.  The parser emits entry k once it has read
\* entry k - 1 to its end.
sampleZipEntry(k) ==
    /\ Alive /\ pc = "sampleZip" /\ conn = "open"
    /\ upstream.status = "ok"
    /\ k \in 1..Len(Entries)
    /\ zipPos = k - 1
    /\ EntryRead(k - 1)
    /\ zipPos' = k
    /\ IF Entries[k] = "csv"
       THEN /\ type' = "csv"
            /\ results' = <<>>
            /\ streams' = [streams EXCEPT ![k].state = "flowing"]
       ELSE IF Entries[k] = "geojson"
       THEN /\ type' = "geojson"
            /\ results' = <<>>
            /\ streams' = [streams EXCEPT ![k].state = "flowing"]
       ELSE \* entry.autodrain()
            /\ streams' = [streams EXCEPT ![k].state = "drained", ![k].read = Total(k)]
            /\ UNCHANGED <<type, results>>
    /\ UNCHANGED <<pc, source, protocol, compression, fields, res, crashed,
                   upstream, conn, events, zipFinished, nextCalls, dl>>

\* csv-parse decodes the next record of entry k
sampleZipParse(k) ==
    /\ Alive /\ pc = "sampleZip" /\ conn = "open"
    /\ k \in 1..Len(Entries)
    /\ zipPos = k /\ Entries[k] = "csv"
    /\ ParseRecord(k)
    /\ UNCHANGED <<pc, qvars, res, crashed, upstream, conn, events, zipPos,
                   zipFinished, nextCalls, dl>>

\* the through2 transform, app.js:211-222
sampleZipRecord(k) ==
    /\ Alive /\ pc = "sampleZip"
    /\ k \in 1..Len(Entries) /\ Entries[k] = "csv"
    /\ Through2Sampler(k)
    /\ UNCHANGED <<pc, source, protocol, type, compression, res, crashed,
                   upstream, conn, zipPos, zipFinished, nextCalls, dl>>

\* entry k ended and every record of it was taken
sampleZipEnd(k) ==
    /\ Alive /\ pc = "sampleZip"
    /\ k \in 1..Len(Entries) /\ Entries[k] = "csv"
    /\ Through2End(k)
    /\ UNCHANGED <<pc, qvars, res, crashed, upstream, conn, zipPos,
                   zipFinished, nextCalls, dl>>

\* .on('close'), app.js:223-226
sampleZipClose(k) ==
    /\ Alive /\ pc = "sampleZip"
    /\ <<k, "close">> \in events
    /\ events' = events \ {<<k, "close">>}
    /\ next(type, fields, results)
    /\ UNCHANGED <<pc, qvars, crashed, upstream, conn, streams, zipPos,
                   zipFinished, dl>>

\* .on('finish'), app.js:227-230
sampleZipCsvFinish(k) ==
    /\ Alive /\ pc = "sampleZip"
    /\ <<k, "finish">> \in events
    /\ events' = events \ {<<k, "finish">>}
    /\ next(type, fields, results)
    /\ UNCHANGED <<pc, qvars, crashed, upstream, conn, streams, zipPos,
                   zipFinished, dl>>

\* oboe(entry) parsed a feature: 'features[*]', and for the tenth
\* 'features[9]', app.js:238-248: this.abort(), then next().  oboe was
\* given a stream, not a URL: abort() stops its callbacks and leaves the
\* stream flowing.
sampleZipNode(k) ==
    /\ Alive /\ pc = "sampleZip" /\ conn = "open"
    /\ k \in 1..Len(Entries)
    /\ zipPos = k /\ Entries[k] = "geojson"
    /\ OboeFeature(k)
    /\ IF streams[k].read + 1 = AbortAt
       THEN /\ streams' = [streams EXCEPT ![k].read = @ + 1, ![k].state = "aborted"]
            /\ next(type, fields', results')
       ELSE /\ streams' = [streams EXCEPT ![k].read = @ + 1]
            /\ UNCHANGED <<res, nextCalls>>
    /\ UNCHANGED <<pc, source, protocol, type, compression, crashed, upstream,
                   conn, events, zipPos, zipFinished, dl>>

\* the rest of an entry whose oboe was aborted flows on, unparsed
sampleZipFlow(k) ==
    /\ Alive /\ pc = "sampleZip" /\ conn = "open"
    /\ k \in 1..Len(Entries)
    /\ zipPos = k /\ Entries[k] = "geojson"
    /\ streams[k].state = "aborted"
    /\ streams[k].read < Total(k)
    /\ streams' = [streams EXCEPT ![k].read = @ + 1]
    /\ UNCHANGED <<pc, qvars, res, crashed, upstream, conn, events, zipPos,
                   zipFinished, nextCalls, dl>>

\* .done, app.js:249-253: entry k was read to its end.  The callback is
\* delivered on the entry's own 'end', which may come after the parser's
\* next 'entry' or its 'finish'.
sampleZipDone(k) ==
    /\ Alive /\ pc = "sampleZip"
    /\ k \in 1..Len(Entries)
    /\ zipPos >= k /\ Entries[k] = "geojson"
    /\ streams[k].state = "flowing"
    /\ EntryRead(k)
    /\ streams' = [streams EXCEPT ![k].state = "done"]
    /\ next(type, fields, results)
    /\ UNCHANGED <<pc, qvars, crashed, upstream, conn, events, zipPos,
                   zipFinished, dl>>

\* the 'finish' handler without its test of req.query.type
sampleZipFinishUntested ==
    /\ Alive /\ pc = "sampleZip" /\ conn = "open"
    /\ upstream.status = "ok"
    /\ ~zipFinished
    /\ zipPos = Len(Entries)
    /\ EntryRead(Len(Entries))
    /\ zipFinished' = TRUE
    /\ conn' = "ended"
    /\ SendFromCallback(400, "Could not determine type from zip file")
    /\ UNCHANGED <<pc, qvars, upstream, streams, events, zipPos, nextCalls, dl>>

\* .on('finish') of the zip parser, app.js:262-266: the archive was read to
\* its end
sampleZipFinish ==
    /\ Alive /\ pc = "sampleZip" /\ conn = "open"
    /\ upstream.status = "ok"
    /\ ~zipFinished
    /\ zipPos = Len(Entries)
    /\ EntryRead(Len(Entries))
    /\ zipFinished' = TRUE
    /\ conn' = "ended"
    /\ IF type = Undefined
       THEN SendFromCallback(400, "Could not determine type from zip file")
       ELSE UNCHANGED <<res, crashed>>
    /\ UNCHANGED <<pc, qvars, upstream, streams, events, zipPos, nextCalls, dl>>

(***************************************************************************)
(* GET /fields: the specifications.                                        *)
(***************************************************************************)
ClassifyNext ==
    \/ preconditionsCheck
    \/ determineType
    \/ arcgisRouter
    \/ geojsonRouter
    \/ csvRouter
    \/ zipRouter
    \/ output

FieldsNext ==
    \/ ClassifyNext
    \/ sampleArcgisCallback
    \/ sampleGeojsonStart
    \/ sampleGeojsonFail
    \/ sampleGeojsonNode
    \/ sampleGeojsonDone
    \/ sampleCsvError
    \/ sampleCsvResponse
    \/ sampleCsvParse
    \/ sampleCsvRecord
    \/ sampleCsvDecodeError
    \/ sampleCsvEnd
    \/ sampleCsvClose
    \/ sampleCsvFinish
    \/ sampleZipError
    \/ sampleZipFinish
    \/ \E k \in StreamIds :
          \/ sampleZipEntry(k)
          \/ sampleZipParse(k)
          \/ sampleZipRecord(k)
          \/ sampleZipEnd(k)
          \/ sampleZipClose(k)
          \/ sampleZipCsvFinish(k)
          \/ sampleZipNode(k)
          \/ sampleZipFlow(k)
          \/ sampleZipDone(k)

SpecClassify == ClassifyInit /\ [][ClassifyNext]_vars
SpecFields == FieldsInit /\ [][FieldsNext]_vars

(***************************************************************************)
(* GET /download/<key>: the inputs (src/download.js).                      *)
(***************************************************************************)
\* most records of the metadata feed
MaxFeed == 2
\* most entries of a downloaded archive
MaxZipEntries == 2
\* most rows of the .csv entry of an archive
MaxRows == 2

\* the dataset key of the request (res.locals.source) and another one
Key == "k1"
Keys == {Key, "k2"}

\* the 'processed' column of the i-th feed record: empty, or a URL of its own
EmptyString == <<>>
UrlOf(i) == <<"archive", i>>
UndefinedUrl == <<Undefined>>

\* the feeds of m records
RECURSIVE FeedsOfLen(_)
FeedsOfLen(m) ==
    IF m = 0 THEN {<<>>}
    ELSE {Append(f, [source |-> sk, processed |-> p]) :
             f \in FeedsOfLen(m - 1), sk \in Keys, p \in {EmptyString, UrlOf(m)}}

Feeds == UNION {FeedsOfLen(m) : m \in 0..MaxFeed}

FeedStatuses == {"ok", "refused", "non200plain", "non200other"}
ArchiveStatuses == {"ok", "refused", "non200"}

\* an archive: whether yauzl can open it, the names of its entries (.csv
\* or not), and the rows of a .csv entry; badRow > 0 is the row csv-parse
\* fails on
DlArchives ==
    {a \in [openable : {TRUE}, entries : SeqsUpTo({"csv", "other"}, MaxZipEntries),
            rows : 0..MaxRows, badRow : 0..MaxRows] : a.badRow <= a.rows}
    \cup {[openable |-> FALSE, entries |-> <<>>, rows |-> 0, badRow |-> 0]}

NoArchive == [openable |-> FALSE, entries |-> <<>>, rows |-> 0, badRow |-> 0]

Formats == {Undefined, "csv", "geojson", "xml"}

\* the cells of a row: LON and LAT as text, and the other columns
LonText(i) == IF i % 2 = 1 THEN "-122.10" ELSE "abc"
LatText(i) == IF i % 2 = 1 THEN "37.5" ELSE "12x"
RowOf(k, i) == [LON |-> LonText(i), LAT |-> LatText(i), NAME |-> <<k, i>>]

\* JSON.stringify(parseFloat(text)): the number a leading numeric prefix
\* denotes, printed, and null for NaN
parseFloat(text) ==
    CASE text = "-122.10" -> "-122.1"
      [] text = "37.5" -> "37.5"
      [] text = "12x" -> "12"
      [] OTHER -> "null"

\* _.omit(record, names)
omit(record, names) == [f \in (DOMAIN record) \ names |-> record[f]]

\* the point of download.js:121-130
PointOf(record) ==
    [geometry |-> [type |-> "Point",
                   coordinates |-> <<parseFloat(record.LON), parseFloat(record.LAT)>>],
     properties |-> omit(record, {"LON", "LAT"})]

GeojsonHeader == "{\"type\":\"FeatureCollection\",\"features\":["
GeojsonFooter == "]}"

IdleHandler == [state |-> "none", pos |-> 0, count |-> 0]
ZipIds == 1..MaxZipEntries

DownloadInit ==
    /\ pc = "downloadPreconditionsCheck"
    /\ source = NoSource
    /\ protocol = Undefined
    /\ type = Undefined
    /\ compression = Undefined
    /\ fields = UndefinedFields
    /\ results = UndefinedResults
    /\ res = FreshRes
    /\ crashed = FALSE
    /\ upstream = NoUpstream
    /\ conn = "none"
    /\ streams = [k \in StreamIds |-> IdleStream]
    /\ events = {}
    /\ zipPos = 0
    /\ zipFinished = FALSE
    /\ nextCalls = 0
    /\ \E fmt \in Formats, env \in BOOLEAN :
          dl = [ stage |-> "download",
                 format |-> fmt,              \* req.query.format
                 env |-> env,                 \* OPENADDRESSES_METADATA_FILE is set
                 outputHandler |-> Undefined, \* res.locals.outputHandler
                 feed |-> <<>>,               \* the records of the metadata feed
                 examined |-> 0,              \* feed records the resolver examined
                 metaState |-> "idle",        \* the resolver's through2 stream
                 datafile |-> UndefinedUrl,   \* res.locals.datafile
                 requested |-> <<>>,          \* the archive URLs requested
                 getDataRuns |-> 0,           \* how often getData was entered
                 tempCreated |-> FALSE,       \* a temp file was created
                 tempOnDisk |-> FALSE,        \* and is still on disk
                 archive |-> NoArchive,       \* the archive in the temp file
                 pendingRead |-> FALSE,       \* zipfile.readEntry() is under way
                 zpos |-> 0,                  \* entries emitted so far
                 opens |-> {},                \* openReadStream calls under way
                 opened |-> <<>>,             \* entries handed to the output handler
                 csvFileFound |-> FALSE,
                 endEmitted |-> FALSE,        \* the zipfile's 'end' was delivered
                 handlers |-> [k \in ZipIds |-> IdleHandler],
                 finishListeners |-> 0,       \* respondWithCsv's listeners on res
                 decodeFailed |-> FALSE,      \* csv-parse emitted 'error'
                 cleanupRuns |-> 0,           \* how often cleanupTemp ran
                 cleanedUp |-> FALSE,         \* temp.cleanup() was called
                 otherTempOnDisk |-> TRUE ]   \* the temp file of another request
                                              \* in flight is on disk

fvars == <<source, protocol, type, compression, fields, results, upstream,
           conn, streams, events, zipPos, zipFinished>>

\* res.status(code).type('application/json').send({error: ..}) from a
\* middleware or a callback
JsonError(code, message) == [error |-> [code |-> code, message |-> message]]

(***************************************************************************)
(* GET /download/<key>: preconditionsCheck, setupTemp, getMetaData.        *)
(***************************************************************************)
\* _.defaultTo(req.query.format, 'csv')
defaultTo(value, default) == IF value = Undefined THEN default ELSE value

\* a test of the format that lets every format through
isOutputFormatSupportedAny(format) == format \in STRING

\* isOutputFormatSupported, download.js:29-36
isOutputFormatSupported(format) == format \in {"csv", "geojson"}

\* download.js:156-185
downloadPreconditionsCheck ==
    /\ Alive /\ pc = "downloadPreconditionsCheck"
    /\ LET format == defaultTo(dl.format, "csv")
       IN  IF ~dl.env
           THEN /\ res' = Sent(500, JsonError(500, "OPENADDRESSES_METADATA_FILE not defined"))
                /\ dl' = [dl EXCEPT !.format = format]
                /\ pc' = "done"
           ELSE IF ~isOutputFormatSupported(format)
           THEN /\ res' = Sent(400, JsonError(400, <<"Unsupported output format", format>>))
                /\ dl' = [dl EXCEPT !.format = format]
                /\ pc' = "done"
           ELSE /\ res' = res
                /\ dl' = [dl EXCEPT !.format = format, !.outputHandler = format]
                /\ pc' = "setupTemp"
    /\ UNCHANGED <<fvars, crashed, nextCalls>>

\* download.js:24-27.  require('temp') is the one module object of the
\* process and track() returns it: res.locals.temp of every request is
\* that object, and the files it tracks are those of all requests.
setupTemp ==
    /\ Alive /\ pc = "setupTemp"
    /\ pc' = "getMetaData"
    /\ UNCHANGED <<fvars, res, crashed, nextCalls, dl>>

\* download.js:188-192: the feed is requested
getMetaData ==
    /\ Alive /\ pc = "getMetaData"
    /\ pc' = "metaRequest"
    /\ UNCHANGED <<fvars, res, crashed, nextCalls, dl>>

\* r.on('error'), download.js:195: handleCatastrophicError, download.js:38-46
getMetaDataError ==
    /\ Alive /\ pc = "metaRequest"
    /\ SendFromCallback(500, JsonError(500, "Error retrieving file"))
    /\ pc' = "done"
    /\ UNCHANGED <<fvars, nextCalls, dl>>

\* handlePlainTextNonCatastrophicError, download.js:52-67
handlePlainTextNonCatastrophicError ==
    SendFromCallback(500, JsonError(500, "Error retrieving file: msg (statusCode)"))

\* handleNonPlainTextNonCatastrophicError(statusCode, res), download.js:70-82,
\* as getMetaData calls it at download.js:205, with res alone: its res
\* parameter is undefined and res.status(500) throws
handleNonPlainTextNonCatastrophicError ==
    /\ crashed' = TRUE
    /\ res' = res

\* r.on('response'), download.js:198-242
getMetaDataResponse ==
    /\ Alive /\ pc = "metaRequest"
    /\ \E st \in FeedStatuses \ {"refused"}, f \in Feeds :
          IF st = "non200plain"
          THEN /\ f = <<>>
               /\ handlePlainTextNonCatastrophicError
               /\ pc' = "done"
               /\ UNCHANGED <<dl>>
          ELSE IF st = "non200other"
          THEN /\ f = <<>>
               /\ handleNonPlainTextNonCatastrophicError
               /\ pc' = "done"
               /\ UNCHANGED <<dl>>
          ELSE /\ dl' = [dl EXCEPT !.feed = f, !.metaState = "flowing"]
               /\ pc' = "metaStream"
               /\ UNCHANGED <<res, crashed>>
    /\ UNCHANGED <<fvars, nextCalls>>

\* whether the resolver's transform takes this record for the dataset,
\* download.js:223
IsDataset(record) == record.source = Key

\* the transform without its this.destroy(): it records the match and goes
\* on reading
getMetaDataRecordKeepsReading ==
    /\ Alive /\ pc = "metaStream"
    /\ dl.metaState = "flowing"
    /\ dl.examined < Len(dl.feed)
    /\ LET record == dl.feed[dl.examined + 1]
       IN  dl' = [dl EXCEPT !.examined = @ + 1,
                           !.datafile = IF record.source = Key
                                        THEN record.processed ELSE @]
    /\ UNCHANGED <<pc, fvars, events, res, crashed, nextCalls>>

\* the through2 transform, download.js:222-230, on the next feed record
getMetaDataRecord ==
    /\ Alive /\ pc = "metaStream"
    /\ dl.metaState = "flowing"
    /\ dl.examined < Len(dl.feed)
    /\ LET record == dl.feed[dl.examined + 1]
       IN  IF IsDataset(record)
           THEN /\ dl' = [dl EXCEPT !.examined = @ + 1,
                                    !.datafile = record.processed,
                                    !.metaState = "destroyed"]
                /\ events' = events \cup {<<0, "close">>}
           ELSE /\ dl' = [dl EXCEPT !.examined = @ + 1]
                /\ events' = events
    /\ UNCHANGED <<pc, source, protocol, type, compression, fields, results,
                   upstream, conn, streams, zipPos, zipFinished, res, crashed,
                   nextCalls>>

\* the feed ended and the transform examined its last record: 'finish'
getMetaDataEnd ==
    /\ Alive /\ pc = "metaStream"
    /\ dl.metaState = "flowing"
    /\ dl.examined = Len(dl.feed)
    /\ dl' = [dl EXCEPT !.metaState = "finished"]
    /\ events' = events \cup {<<0, "finish">>}
    /\ UNCHANGED <<pc, source, protocol, type, compression, fields, results,
                   upstream, conn, streams, zipPos, zipFinished, res, crashed,
                   nextCalls>>

\* !res.locals.datafile
Falsy(url) == url = UndefinedUrl \/ url = EmptyString

\* getData up to the request of the archive, download.js:247-262
getData ==
    IF Falsy(dl.datafile)
    THEN /\ res' = Sent(400, JsonError(400, <<"Unable to find", Key>>))
         /\ dl' = [dl EXCEPT !.getDataRuns = @ + 1]
         /\ pc' = "done"
    ELSE /\ res' = res
         /\ dl' = [dl EXCEPT !.getDataRuns = @ + 1,
                            !.requested = Append(@, dl.datafile)]
         /\ pc' = "archiveRequest"

\* .on('close'), download.js:231-234: next()
getMetaDataClose ==
    /\ Alive /\ pc = "metaStream"
    /\ <<0, "close">> \in events
    /\ events' = events \ {<<0, "close">>}
    /\ getData
    /\ UNCHANGED <<source, protocol, type, compression, fields, results,
                   upstream, conn, streams, zipPos, zipFinished, crashed,
                   nextCalls>>

\* .on('finish'), download.js:235-238: next()
getMetaDataFinish ==
    /\ Alive /\ pc = "metaStream"
    /\ <<0, "finish">> \in events
    /\ events' = events \ {<<0, "finish">>}
    /\ getData
    /\ UNCHANGED <<source, protocol, type, compression, fields, results,
                   upstream, conn, streams, zipPos, zipFinished, crashed,
                   nextCalls>>

(***************************************************************************)
(* getData, download.js:247-338, and cleanupTemp, download.js:342-348.     *)
(***************************************************************************)
\* r.on('error'), download.js:265
getDataError ==
    /\ Alive /\ pc = "archiveRequest"
    /\ SendFromCallback(500, JsonError(500, "Error retrieving file"))
    /\ pc' = "done"
    /\ UNCHANGED <<fvars, nextCalls, dl>>

\* r.on('response'), download.js:268-277: an error answer, or the temp file
\* is created and the archive written to it.  The feed's stream, which the
\* resolver left behind, plays no part from here on and is dropped from the
\* state.
getDataResponse ==
    /\ Alive /\ pc = "archiveRequest"
    /\ \E st \in ArchiveStatuses \ {"refused"} :
          IF st # "ok"
          THEN /\ handlePlainTextNonCatastrophicError
               /\ pc' = "done"
               /\ UNCHANGED <<dl>>
          ELSE /\ dl' = [dl EXCEPT !.tempCreated = TRUE, !.tempOnDisk = TRUE,
                                   !.feed = <<>>, !.examined = 0]
               /\ pc' = "tmpZipStream"
               /\ UNCHANGED <<res, crashed>>
    /\ UNCHANGED <<fvars, nextCalls>>

\* the temp file's 'close', download.js:277-280, and the callback of
\* yauzl.open, download.js:280-288: an archive that cannot be opened is
\* answered 400, any other has its first entry requested
yauzlOpen ==
    /\ Alive /\ pc = "tmpZipStream"
    /\ \E a \in DlArchives :
          IF ~a.openable
          THEN /\ SendFromCallback(400, "Error retrieving file")
               /\ dl' = [dl EXCEPT !.archive = a]
               /\ pc' = "done"
          ELSE /\ dl' = [dl EXCEPT !.archive = a, !.pendingRead = TRUE]
               /\ pc' = "zipfile"
               /\ UNCHANGED <<res, crashed>>
    /\ UNCHANGED <<fvars, nextCalls>>

\* whether the 'entry' handler opens an entry of this name, download.js:294
OpensEntry(name, found) == name = "csv" /\ ~found

\* zipfile.on('entry'), download.js:290-310: the next entry is requested at
\* once, and a .csv entry is opened unless csvFileFound is set
zipfileEntry(k) ==
    /\ Alive /\ pc = "zipfile"
    /\ dl.pendingRead
    /\ k \in 1..Len(dl.archive.entries)
    /\ dl.zpos = k - 1
    /\ dl' = [dl EXCEPT !.zpos = k,
                        !.opens = IF OpensEntry(dl.archive.entries[k], dl.csvFileFound)
                                  THEN @ \cup {k} ELSE @]
    /\ UNCHANGED <<pc, fvars, res, crashed, nextCalls>>

\* cleanupTemp, download.js:342-348, entered by a next() of getData, on the
\* response r and the download state d
cleanupTemp(r, d) ==
    IF ~r.headersSent
    THEN [d EXCEPT !.cleanupRuns = @ + 1, !.tempOnDisk = FALSE, !.cleanedUp = TRUE,
                   !.otherTempOnDisk = FALSE]
    ELSE [d EXCEPT !.cleanupRuns = @ + 1]

\* respondWithCsv, download.js:85-92: status and headers are set, the entry
\* is piped to the response and next is registered for its 'finish'
respondWithCsv(k, d) ==
    /\ res' = [res EXCEPT !.statusCode = 200]
    /\ IF res.headersSent
       THEN crashed' = TRUE /\ dl' = d
       ELSE /\ crashed' = crashed
            /\ dl' = [d EXCEPT !.handlers[k].state = "piping",
                               !.finishListeners = @ + 1]

\* respondWithGeojson, download.js:95-113: status and headers are set, the
\* header of the collection is written and the entry is piped to csv-parse
respondWithGeojson(k, d) ==
    IF res.headersSent
    THEN /\ res' = [res EXCEPT !.statusCode = 200]
         /\ crashed' = TRUE
         /\ dl' = d
    ELSE /\ res' = [res EXCEPT !.statusCode = 200, !.headersSent = TRUE,
                               !.sentStatus = 200, !.body = <<GeojsonHeader>>]
         /\ crashed' = crashed
         /\ dl' = [d EXCEPT !.handlers[k].state = "converting"]

\* the callback of zipfile.openReadStream, download.js:295-302
openReadStream(k) ==
    /\ Alive /\ pc = "zipfile"
    /\ k \in dl.opens
    /\ LET d == [dl EXCEPT !.opens = @ \ {k},
                           !.csvFileFound = TRUE,
                           !.opened = Append(@, k)]
       IN  IF dl.outputHandler = "csv"
           THEN respondWithCsv(k, d)
           ELSE respondWithGeojson(k, d)
    /\ UNCHANGED <<pc, fvars, nextCalls>>

\* zipfile.on('end'), download.js:313-325
zipfileEnd ==
    /\ Alive /\ pc = "zipfile"
    /\ dl.pendingRead /\ ~dl.endEmitted
    /\ dl.zpos = Len(dl.archive.entries)
    /\ IF ~dl.csvFileFound
       THEN SendFromCallback(500, JsonError(500, "does not contain .csv file"))
       ELSE UNCHANGED <<res, crashed>>
    /\ LET d == [dl EXCEPT !.pendingRead = FALSE, !.endEmitted = TRUE]
       IN  dl' = IF crashed' THEN d ELSE cleanupTemp(res', d)
    /\ UNCHANGED <<pc, fvars, nextCalls>>

\* the response after a write of chunk: the first write sends the headers
Written(chunk) ==
    [res EXCEPT !.headersSent = TRUE,
                !.sentStatus = IF res.headersSent THEN @ ELSE res.statusCode,
                !.body = Append(@, chunk)]

\* the bytes of entry k, of so many rows, as the pipe hands them over
ChunkOf(k, rows) == <<"entry", k, rows>>

\* entry.pipe(res), download.js:87: the bytes of entry k are written to the
\* response; a write to a response already ended is an error no listener
\* handles
respondWithCsvData(k) ==
    /\ Alive /\ pc = "zipfile"
    /\ dl.handlers[k].state = "piping"
    /\ dl.handlers[k].pos = 0
    /\ dl' = [dl EXCEPT !.handlers[k].pos = dl.archive.rows + 1]
    /\ IF res.ended
       THEN res' = res /\ crashed' = TRUE
       ELSE res' = Written(ChunkOf(k, dl.archive.rows)) /\ crashed' = crashed
    /\ UNCHANGED <<pc, fvars, events, nextCalls>>

\* entry.pipe(res): entry k ended, the pipe ends the response, which emits
\* 'finish'
respondWithCsvEnd(k) ==
    /\ Alive /\ pc = "zipfile"
    /\ dl.handlers[k].state = "piping"
    /\ dl.handlers[k].pos > 0
    /\ dl' = [dl EXCEPT !.handlers[k].state = "ended"]
    /\ IF res.ended
       THEN res' = res /\ events' = events
       ELSE /\ res' = [res EXCEPT !.headersSent = TRUE, !.ended = TRUE,
                                  !.sentStatus = IF res.headersSent THEN @
                                                 ELSE res.statusCode]
            /\ events' = events \cup {<<0, "resFinish">>}
    /\ UNCHANGED <<pc, source, protocol, type, compression, fields, results,
                   upstream, conn, streams, zipPos, zipFinished, crashed, nextCalls>>

\* the response's 'finish': every next registered by respondWithCsv,
\* download.js:90, runs cleanupTemp
RECURSIVE CleanupTimes(_, _, _)
CleanupTimes(m, r, d) == IF m = 0 THEN d ELSE CleanupTimes(m - 1, r, cleanupTemp(r, d))

respondWithCsvFinish ==
    /\ Alive /\ pc = "zipfile"
    /\ <<0, "resFinish">> \in events
    /\ events' = events \ {<<0, "resFinish">>}
    /\ dl' = CleanupTimes(dl.finishListeners, res, dl)
    /\ UNCHANGED <<pc, source, protocol, type, compression, fields, results,
                   upstream, conn, streams, zipPos, zipFinished, res, crashed,
                   nextCalls>>

\* the two through2 transforms, download.js:119-146: the next record of
\* entry k becomes a point, is stringified and written, after a comma
\* unless it is the first
respondWithGeojsonRecord(k) ==
    /\ Alive /\ pc = "zipfile"
    /\ dl.handlers[k].state = "converting"
    /\ dl.handlers[k].pos < dl.archive.rows
    /\ dl.handlers[k].pos + 1 # dl.archive.badRow
    /\ LET point == PointOf(RowOf(k, dl.handlers[k].pos + 1))
           chunks == IF dl.handlers[k].count > 0 THEN <<",", point>> ELSE <<point>>
       IN  res' = [res EXCEPT !.body = @ \o chunks]
    /\ dl' = [dl EXCEPT !.handlers[k].pos = @ + 1, !.handlers[k].count = @ + 1]
    /\ UNCHANGED <<pc, fvars, crashed, nextCalls>>

\* csv-parse's 'error', download.js:114-118
respondWithGeojsonError(k) ==
    /\ Alive /\ pc = "zipfile"
    /\ dl.handlers[k].state = "converting"
    /\ dl.handlers[k].pos < dl.archive.rows
    /\ dl.handlers[k].pos + 1 = dl.archive.badRow
    /\ SendFromCallback(400, "Error parsing file")
    /\ dl' = [dl EXCEPT !.handlers[k].state = "failed", !.decodeFailed = TRUE]
    /\ UNCHANGED <<pc, fvars, nextCalls>>

\* .on('finish'), download.js:147-152: the footer, res.end() and next()
respondWithGeojsonFinish(k) ==
    /\ Alive /\ pc = "zipfile"
    /\ dl.handlers[k].state = "converting"
    /\ dl.handlers[k].pos = dl.archive.rows
    /\ res' = [res EXCEPT !.body = Append(@, GeojsonFooter), !.ended = TRUE]
    /\ dl' = cleanupTemp(res', [dl EXCEPT !.handlers[k].state = "finished"])
    /\ UNCHANGED <<pc, fvars, crashed, nextCalls>>

DownloadNext ==
    \/ downloadPreconditionsCheck
    \/ setupTemp
    \/ getMetaData
    \/ getMetaDataError
    \/ getMetaDataResponse
    \/ getMetaDataRecord
    \/ getMetaDataEnd
    \/ getMetaDataClose
    \/ getMetaDataFinish
    \/ getDataError
    \/ getDataResponse
    \/ yauzlOpen
    \/ zipfileEnd
    \/ respondWithCsvFinish
    \/ \E k \in ZipIds :
          \/ zipfileEntry(k)
          \/ openReadStream(k)
          \/ respondWithCsvData(k)
          \/ respondWithCsvEnd(k)
          \/ respondWithGeojsonRecord(k)
          \/ respondWithGeojsonError(k)
          \/ respondWithGeojsonFinish(k)

SpecDownload == DownloadInit /\ [][DownloadNext]_vars

(***************************************************************************)
(* Claims about GET /fields.                                               *)
(***************************************************************************)
Answered(code) == res.headersSent /\ res.sentStatus = code

\* the first entry of the archive whose name ends in .csv or .geojson
\* (0: none)
FirstMatch ==
    LET matching == {k \in 1..Len(Entries) : Entries[k] \in {"csv", "geojson"}}
    IN  IF matching = {} THEN 0
        ELSE CHOOSE k \in matching : \A j \in matching : k <= j

\* the sampler of stream k stopped at the cap
CutOff(k) == streams[k].state \in {"destroyed", "aborted"}

\* C1: a direct CSV or GeoJSON source that is fetched and decoded without
\* error is answered 200, never with an error, and the results of the
\* response are the first min(10, totalRecords) records of the source, in
\* source order.
C1_DirectSampleIsPrefix ==
    (pc \in {"sampleCsv", "sampleGeojson"} /\ upstream.status = "ok" /\ res.headersSent)
        => /\ res.sentStatus = 200
           /\ res.body[1].results = Prefix(1, Min(SampleCap, upstream.n))
           /\ Len(res.body[1].results) = Min(SampleCap, upstream.n)

\* a direct CSV source of more than 10 records was answered
C1_Witness ==
    /\ pc = "sampleCsv" /\ Answered(200)
    /\ upstream.n > SampleCap
    /\ Len(res.body[1].results) = SampleCap

\* C2: for every sampled source with more than 10 records, once the sampler
\* has stopped at the cap the upstream request is aborted, no record beyond
\* the 11th has been read from the source, and the source is not read to
\* its end.
C2_EarlyTerminationCancels ==
    \A k \in StreamIds :
        (pc \in {"sampleCsv", "sampleGeojson", "sampleZip"}
            /\ Total(k) > SampleCap /\ CutOff(k))
        => /\ conn = "aborted"
           /\ streams[k].read <= SampleCap + 1
           /\ streams[k].read < Total(k)

\* C3: of a zip source only the first entry named .csv or .geojson is
\* decoded; every other entry is drained undecoded, and results and
\* conform.type of a 200 response come from that first matching entry.
C3_OnlyFirstMatchDecoded ==
    pc = "sampleZip" =>
        /\ \A k \in 1..Len(Entries) :
              streams[k].state \notin {"idle", "drained"} => k = FirstMatch
        /\ Answered(200) =>
              /\ res.body[1].conformType = Entries[FirstMatch]
              /\ \A i \in 1..Len(res.body[1].results) :
                    res.body[1].results[i].entry = FirstMatch

\* C7: the descriptor determineType leaves in the request is the one the
\* rules give for the locator, whatever else the request holds: ESRI /
\* geojson / no compression, http / geojson, http / csv, http / zip with no
\* type yet; any other locator is answered 400 'Unsupported type' and a
\* request without source 400 "'source' parameter is required", and in both
\* cases no upstream request is made.
C7_ClassificationByLocator ==
    pc \notin {"preconditionsCheck", "determineType"} =>
        IF source = NoSource
        THEN Answered(400) /\ conn = "none" /\ pc = "done"
                /\ res.body = <<"'source' parameter is required">>
        ELSE IF arcgisRegexpTest(source)
        THEN protocol = "ESRI" /\ type = "geojson" /\ compression = Undefined
        ELSE IF endsWith(source, ".geojson")
        THEN protocol = "http" /\ type = "geojson" /\ compression = Undefined
        ELSE IF endsWith(source, ".csv")
        THEN protocol = "http" /\ type = "csv" /\ compression = Undefined
        ELSE IF endsWith(source, ".zip")
        THEN protocol = "http" /\ type = Undefined /\ compression = "zip"
        ELSE Answered(400) /\ conn = "none" /\ pc = "done"
                /\ res.body = <<"Unsupported type">>

(***************************************************************************)
(* Claims about GET /download.                                             *)
(***************************************************************************)
Downloading == dl.stage = "download"

\* nothing is left to happen for the request
Quiescent == ~ENABLED DownloadNext

\* the entries of the archive named .csv
CsvEntries == {k \in 1..Len(dl.archive.entries) : dl.archive.entries[k] = "csv"}

\* the first of them (0: none)
FirstCsv ==
    IF CsvEntries = {} THEN 0
    ELSE CHOOSE k \in CsvEntries : \A j \in CsvEntries : k <= j

\* the entries openReadStream was called for
OpenCalls == dl.opens \cup {dl.opened[i] : i \in 1..Len(dl.opened)}

\* the 500 '<datafile> does not contain .csv file' was sent: the only 500
\* of the zipfile stage
NoCsvErrorSent == pc = "zipfile" /\ Answered(500)

\* C4: once a request that created a temp file has completed its response
\* and nothing is left to happen, the temp file is no longer on disk.
C4_TempFileDeleted ==
    (Downloading /\ dl.tempCreated /\ res.ended /\ Quiescent) => ~dl.tempOnDisk

\* C5: at most one archive entry is ever opened and handed to the output
\* handler, and it is the first entry named .csv.
C5_AtMostOneEntryOpened ==
    Downloading =>
        /\ Cardinality(OpenCalls) <= 1
        /\ Len(dl.opened) <= 1
        /\ \A k \in OpenCalls : k = FirstCsv

\* C6: '<datafile> does not contain .csv file' is sent when the archive was
\* enumerated to its end and has no .csv entry, and never for an archive
\* with a .csv entry.
C6_NoCsvErrorOnlyWithoutCsv ==
    Downloading =>
        /\ NoCsvErrorSent => (CsvEntries = {} /\ dl.endEmitted)
        /\ (dl.endEmitted /\ CsvEntries = {}) => NoCsvErrorSent

\* the first feed record of the requested dataset (0: none)
FirstDataset(feed) ==
    LET found == {i \in 1..Len(feed) : feed[i].source = Key}
    IN  IF found = {} THEN 0
        ELSE CHOOSE i \in found : \A j \in found : i <= j

\* the resolver's stream is over: it was destroyed, or it finished
Resolved == dl.metaState \in {"destroyed", "finished"}

\* C8: the datafile is the 'processed' field of the first feed record whose
\* source equals the key, later records of the same key notwithstanding;
\* the resolver examines no record after it, the next stage is started
\* exactly once, and an archive is requested from no other URL.
C8_ResolverFirstMatch ==
    (Downloading /\ Resolved) =>
        /\ dl.getDataRuns = (IF pc = "metaStream" THEN 0 ELSE 1)
        /\ Len(dl.requested) <= 1
        /\ \A i \in 1..Len(dl.requested) : dl.requested[i] = dl.datafile
        /\ ~dl.tempCreated =>
              LET m == FirstDataset(dl.feed)
              IN  /\ m > 0 => (dl.datafile = dl.feed[m].processed /\ dl.examined = m)
                  /\ m = 0 => (dl.datafile = UndefinedUrl /\ dl.examined = Len(dl.feed))
                  /\ dl.requested # <<>> => m > 0

\* a feed with the key twice, the archive requested from the first record's
\* URL
C8_Witness ==
    /\ Downloading /\ Resolved
    /\ Len(dl.feed) >= 2
    /\ \A i \in 1..2 : dl.feed[i].source = Key /\ dl.feed[i].processed # EmptyString
    /\ dl.requested = <<dl.feed[1].processed>>
    /\ dl.getDataRuns = 1

\* the body of the collection of the first m records of entry k
RECURSIVE Features(_, _)
Features(k, m) ==
    IF m = 0 THEN <<>>
    ELSE IF m = 1 THEN <<PointOf(RowOf(k, 1))>>
    ELSE Features(k, m - 1) \o <<",", PointOf(RowOf(k, m))>>

GeojsonBody(k, m) == <<GeojsonHeader>> \o Features(k, m) \o <<GeojsonFooter>>

\* the GeoJSON handler on a response nothing else wrote to: the only entry
\* opened, no error answer sent before it, no decode failure.  Its body is
\* the header, the features with their commas, and the footer.
GeojsonHandlerAloneExact ==
    \A k \in ZipIds :
        (Downloading /\ dl.outputHandler = "geojson" /\ dl.archive.badRow = 0
            /\ dl.opened = <<k>> /\ ~Answered(500) /\ Quiescent)
        => /\ res.sentStatus = 200
           /\ res.ended
           /\ res.body = GeojsonBody(k, dl.archive.rows)

\* C9: for every .csv entry handed to the GeoJSON output handler that
\* decodes without error, once nothing is left to happen the response is a
\* 200 whose body is the header, the n features in record order with n - 1
\* commas between them, and the footer, and the response is ended.
C9_GeojsonBodyExact ==
    \A k \in ZipIds :
        (Downloading /\ dl.outputHandler = "geojson" /\ dl.archive.badRow = 0
            /\ (\E i \in 1..Len(dl.opened) : dl.opened[i] = k) /\ Quiescent)
        => /\ res.sentStatus = 200
           /\ res.ended
           /\ res.body = GeojsonBody(k, dl.archive.rows)

\* C10: after a decode failure of the source CSV the response either
\* carries an error status and none of the collection, or it is the 200
\* response already started, cut short: no error status is assigned to it
\* and nothing is thrown.
C10_DecodeFailureTruncates ==
    (Downloading /\ dl.decodeFailed) =>
        \/ res.sentStatus = 400 /\ res.body = <<"Error parsing file">>
        \/ res.sentStatus = 200 /\ res.statusCode = 200 /\ ~crashed

(***************************************************************************)
(* Further claims about GET /fields.                                       *)
(***************************************************************************)
\* nothing is left to happen for a /fields request
FieldsQuiescent == ~ENABLED FieldsNext

\* a sampler was entered
Sampling == pc \in {"sampleArcgis", "sampleGeojson", "sampleCsv", "sampleZip", "done"}
                /\ conn # "none"

\* C11: a source whose upstream fails (connection refused, or a non-200
\* answer) is never answered 200, and once nothing is left to happen it has
\* been answered 400 and no exception escaped.
C11_UpstreamFailureIs400 ==
    (Sampling /\ upstream.status \in {"refused", "non200"}) =>
        /\ ~Answered(200)
        /\ FieldsQuiescent => (Answered(400) /\ ~crashed)

\* the request is in one of the stream samplers (not the ArcGIS one)
StreamSampling == pc \in {"sampleCsv", "sampleGeojson", "sampleZip"}

\* C13: in the CSV, GeoJSON and zip samplers, whenever results holds a
\* record, fields is the key set of the last record of results, and the
\* same holds of the fields and results of a 200 response.
C13_FieldsAreKeysOfLast ==
    StreamSampling =>
        /\ (fields # UndefinedFields /\ Len(results) > 0)
              => fields = keys(results[Len(results)])
        /\ Answered(200) =>
              LET b == res.body[1]
              IN  (b.fields # UndefinedFields /\ Len(b.results) > 0)
                     => b.fields = keys(b.results[Len(b.results)])

\* a response with several records whose fields differ from the keys of
\* the first record
C13_Witness ==
    /\ StreamSampling /\ Answered(200)
    /\ res.body[1].fields # UndefinedFields
    /\ Len(res.body[1].results) >= 2
    /\ res.body[1].fields # keys(res.body[1].results[1])
    /\ res.body[1].fields = keys(res.body[1].results[Len(res.body[1].results)])

\* C14: for a zip source that was fetched, the 400 'Could not determine type
\* from zip file' is sent once the archive was read to its end without an
\* entry named .csv or .geojson, it is sent for no archive that has such an
\* entry, and for an archive without one the output stage never runs.
C14_NoMatchIs400 ==
    (pc = "sampleZip" /\ upstream.status = "ok") =>
        /\ (zipFinished /\ FirstMatch = 0)
              => (Answered(400) /\ res.body = <<"Could not determine type from zip file">>)
        /\ Answered(400) => (FirstMatch = 0 /\ zipFinished)
        /\ FirstMatch = 0 => (~Answered(200) /\ nextCalls = 0 /\ ~crashed)

\* an archive whose entries all have other names was read to its end and
\* answered 400
C14_Witness ==
    /\ pc = "sampleZip" /\ upstream.status = "ok"
    /\ Len(Entries) >= 2 /\ FirstMatch = 0
    /\ zipFinished /\ Answered(400)

\* the entry a zip source is sampled from when nothing is delayed: the
\* first matching one; a direct source is stream 1
SampledStream == IF pc = "sampleZip" THEN FirstMatch ELSE 1

\* the sample the source's content determines: the first records of that
\* stream, and the keys of the last of them
DeterminedResults == Prefix(SampledStream, Min(SampleCap, upstream.n))
DeterminedFields ==
    IF upstream.n = 0 THEN UndefinedFields
    ELSE keys(RecordOf(SampledStream, Min(SampleCap, upstream.n)))

\* C17: the fields and results of a 200 response are determined by the
\* request and the content of the source: every run of a request on a
\* source answers with the same sample, however the stream events
\* interleave.
C17_SampleDetermined ==
    (StreamSampling /\ Answered(200)) =>
        /\ res.body[1].results = DeterminedResults
        /\ res.body[1].fields = DeterminedFields

\* an archive of two .csv entries of two records each, answered with the
\* sample of the first entry
C17_FirstAnswer ==
    /\ pc = "sampleZip" /\ Answered(200)
    /\ Entries = <<"csv", "csv">> /\ upstream.n = 2
    /\ res.body[1].results = Prefix(1, 2)

\* the same archive, answered with the sample of the second entry
C17_OtherAnswer ==
    /\ pc = "sampleZip" /\ Answered(200)
    /\ Entries = <<"csv", "csv">> /\ upstream.n = 2
    /\ res.body[1].results = Prefix(2, 2)

\* the same archive, answered with an empty sample
C17_EmptyAnswer ==
    /\ pc = "sampleZip" /\ Answered(200)
    /\ Entries = <<"csv", "csv">> /\ upstream.n = 2
    /\ res.body[1].results = <<>>

\* C18: every 200 response for a zip source has type http, compression zip
\* and a conform.type of csv or geojson; it was produced by the zip sampler,
\* and each of its results comes from an entry of the type it reports.
C18_ZipTypeResolved ==
    (source # NoSource /\ endsWith(source, ".zip") /\ Answered(200)) =>
        LET b == res.body[1]
        IN  /\ b.type = "http"
            /\ b.compression = "zip"
            /\ b.conformType \in {"csv", "geojson"}
            /\ pc = "sampleZip"
            /\ \A i \in 1..Len(b.results) : Entries[b.results[i].entry] = b.conformType

\* a 200 response for a zip source whose results come from a .csv entry
\* and whose conform.type is geojson
C18_MixedAnswer ==
    /\ pc = "sampleZip" /\ Answered(200)
    /\ res.body[1].conformType = "geojson"
    /\ Len(res.body[1].results) > 0
    /\ Entries[res.body[1].results[1].entry] = "csv"

(***************************************************************************)
(* Further claims about GET /download.                                     *)
(***************************************************************************)
\* the request passed preconditionsCheck
Admitted == Downloading /\ dl.outputHandler # Undefined

\* the fetch of the feed failed: the request ended before getData ran
FeedFailed == Admitted /\ pc = "done" /\ dl.getDataRuns = 0

\* the fetch of the archive failed: the request ended after the archive was
\* requested and before anything was written to a temp file
ArchiveFailed == Admitted /\ pc = "done" /\ dl.requested # <<>> /\ ~dl.tempCreated

\* C12: when the fetch of the metadata feed or of the archive fails, the
\* request is answered with the 500 JSON error, no exception escapes, no
\* temp file exists and cleanupTemp does not run.
C12_DownloadUpstreamFailureIs500 ==
    (FeedFailed \/ ArchiveFailed) =>
        /\ Answered(500)
        /\ ~crashed
        /\ \E i \in 1..Len(res.body) : res.body[i] \in {JsonError(500, m) :
                 m \in {"Error retrieving file", "Error retrieving file: msg (statusCode)"}}
        /\ ~dl.tempOnDisk
        /\ dl.cleanupRuns = 0
\* getData answered 400 'Unable to find <key> in <feed>'
NotFoundSent ==
    /\ Admitted /\ pc = "done" /\ dl.getDataRuns = 1 /\ dl.requested = <<>>
    /\ Answered(400)
    /\ res.body = <<JsonError(400, <<"Unable to find", Key>>)>>

\* C15: 'Unable to find' is answered exactly when the feed was read to its
\* end without a record of the key; no archive is then requested and no
\* temp file created; a feed that holds a record of the key never gets it.
C15_NotFoundIffNoRecord ==
    (Admitted /\ ~dl.tempCreated) =>
        /\ NotFoundSent => (dl.metaState = "finished" /\ FirstDataset(dl.feed) = 0)
        /\ (dl.metaState = "finished" /\ FirstDataset(dl.feed) = 0 /\ pc # "metaStream")
              => (NotFoundSent /\ ~dl.tempOnDisk)
\* what preconditionsCheck is to do with a request of format f0 (absent:
\* Undefined) under configuration env: the format in force, the answer and
\* the place the request goes to
PreconditionsStep ==
    pc = "downloadPreconditionsCheck" =>
        LET f == IF dl.format = Undefined THEN "csv" ELSE dl.format
        IN  /\ dl'.format = f
            /\ IF ~dl.env
               THEN /\ pc' = "done"
                    /\ res' = Sent(500, JsonError(500, "OPENADDRESSES_METADATA_FILE not defined"))
                    /\ dl'.outputHandler = Undefined
               ELSE IF f \notin {"csv", "geojson"}
               THEN /\ pc' = "done"
                    /\ res' = Sent(400, JsonError(400, <<"Unsupported output format", f>>))
                    /\ dl'.outputHandler = Undefined
               ELSE /\ pc' = "setupTemp"
                    /\ res' = res
                    /\ dl'.outputHandler = f

\* a request preconditionsCheck answered stops there; the others go on with
\* the handler of their format
PreconditionsGate ==
    (Downloading /\ pc # "downloadPreconditionsCheck") =>
        IF dl.outputHandler = Undefined
        THEN /\ pc = "done" /\ Quiescent
             /\ res.ended /\ res.sentStatus \in {400, 500}
             /\ dl.metaState = "idle" /\ dl.feed = <<>> /\ dl.getDataRuns = 0
             /\ dl.requested = <<>> /\ ~dl.tempCreated /\ dl.cleanupRuns = 0
        ELSE /\ dl.env
             /\ dl.outputHandler = dl.format
             /\ dl.format \in {"csv", "geojson"}

\* C16: the format defaults to csv; without the feed's location configured
\* the request is answered 500 JSON, otherwise with a format other than csv
\* and geojson 400 JSON 'Unsupported output format'; a request so answered
\* stops there, with no feed fetch, no archive fetch and no temp file; the
\* others reach the resolver with the output handler of their format.
C16_DownloadPreconditions == [][PreconditionsStep]_vars /\ []PreconditionsGate

\* a request of an unsupported format was answered 400 and went no further
C16_Witness ==
    /\ Downloading /\ pc = "done" /\ dl.env
    /\ dl.format = "xml" /\ dl.outputHandler = Undefined
    /\ Answered(400)
    /\ res.body = <<JsonError(400, <<"Unsupported output format", "xml">>)>>
\* C19: the cleanup of a request deletes no temp file of another request in
\* flight.
C19_TempIsolation ==
    Downloading => dl.otherTempOnDisk
(***************************************************************************)
(* Claims about both endpoints.                                            *)
(***************************************************************************)
\* C20: the next() of a stage is called at most once, so output (for
\* /fields) and getData and cleanupTemp (for /download) run at most once;
\* a response once sent keeps the status it was sent with and nothing
\* throws for writing to it again.
C20_AtMostOneResponse ==
    /\ nextCalls <= 1
    /\ Downloading => (dl.getDataRuns <= 1 /\ dl.cleanupRuns <= 1)
    /\ res.headersSent => res.statusCode = res.sentStatus
    /\ res.headersSent => ~crashed

\* a download answered in full by the GeoJSON handler, the only entry of
\* its archive, with cleanupTemp entered twice
C20_CleanupTwice ==
    /\ Downloading /\ dl.outputHandler = "geojson"
    /\ dl.archive.entries = <<"csv">> /\ dl.opened = <<1>>
    /\ res.ended /\ res.sentStatus = 200 /\ ~crashed
    /\ dl.cleanupRuns = 2

(***************************************************************************)
(* Liveness.  Node delivers every event and runs every callback that is    *)
(* pending, and each upstream is assumed to deliver its stream to the end  *)
(* or to fail: whenever some step of a request is possible, a step is      *)
(* eventually taken.  No step is repeated without progress, so weak        *)
(* fairness of the next-state relation is all a request needs to run until *)
(* nothing is left to happen.                                              *)
(***************************************************************************)
SpecFieldsLive == SpecFields /\ WF_vars(FieldsNext)
SpecDownloadLive == SpecDownload /\ WF_vars(DownloadNext)

\* C21: every request is eventually answered: it reaches a state in which
\* a complete response has been sent.
C21_EventuallyAnswered == <>res.ended

\* C21, as what a finite run shows: once nothing is left to happen, a
\* complete response has been sent and no exception escaped.
AnsweredAtRest ==
    (~ENABLED FieldsNext /\ ~ENABLED DownloadNext) => (res.ended /\ ~crashed)

\* a direct CSV whose body csv-parse rejects after two good records: the
\* request is at rest, the records were sampled and no response was sent
C21_DecodeErrorUnanswered ==
    /\ pc = "sampleCsv" /\ upstream.status = "malformed"
    /\ Len(results) = 2
    /\ FieldsQuiescent /\ ~res.headersSent

====
